---- MODULE Spec2Model ----
(***************************************************************************)
(* Model of stock_app.py, a Streamlit script: the resolver name_to_ticker, *)
(* the data fetcher get_price_and_forward_eps and the presenter (the       *)
(* module-level script, rerun from top to bottom on every browser event).  *)
(*                                                                         *)
(* Strings are sequences of one-character strings.  Upstream services      *)
(* (yahooquery.search, yfinance history / info, yahooquery summary_detail) *)
(* are nondeterministic: every call draws its outcome from a small set of  *)
(* shapes that covers every branch the code distinguishes.                 *)
(*                                                                         *)
(* Both functions are wrapped in st.cache_data, which memoises return      *)
(* values by argument for a limited time.  A call served from the cache    *)
(* runs no line of the function and returns what an earlier execution      *)
(* returned; the model describes the executions of the function bodies,    *)
(* that is, every call as a cache miss.                                    *)
(***************************************************************************)
EXTENDS Integers, Sequences, FiniteSets, TLC

(* ------------------------------ bounds --------------------------------- *)

\* longest query drawn for the resolver (one more than the literal-ticker limit)
MaxLen == 6
\* most candidates in a search response
MaxQuotes == 2
\* most rows in an upstream price frame
MaxRows == 2
\* most browser events (reruns after the initial page load) in one session
MaxRuns == 3

(* ------------------------------ strings -------------------------------- *)

\* Python's None where a str is expected: no string over Chars equals it
None == <<"None">>

\* one character of each class the code tells apart: a letter that upper()
\* changes, an alphanumeric it leaves alone, whitespace, and a character that
\* is neither
Lower == {"a"}
Digit == {"7"}
Space == {" "}
Punct == {"-"}
Chars == Lower \cup Digit \cup Space \cup Punct

RECURSIVE StrsOfLen(_)
StrsOfLen(n) ==
    IF n = 0 THEN {<<>>}
    ELSE {Append(s, c) : s \in StrsOfLen(n - 1), c \in Chars}

Strs(n) == UNION {StrsOfLen(k) : k \in 0..n}

\* str.isspace on one character
IsSpaceChar(c) == c \in Space

\* str.isalnum on one character
IsAlnumChar(c) == c \in Lower \cup Digit

\* str.upper on one character
UpperChar(c) ==
    CASE c = "a" -> "A"
      [] c = "z" -> "Z"
      [] OTHER -> c

\* str.strip(): leading and trailing whitespace removed
RECURSIVE LStrip(_)
LStrip(s) ==
    IF s # <<>> /\ IsSpaceChar(Head(s)) THEN LStrip(Tail(s)) ELSE s

RECURSIVE RStrip(_)
RStrip(s) ==
    IF s # <<>> /\ IsSpaceChar(s[Len(s)])
    THEN RStrip(SubSeq(s, 1, Len(s) - 1))
    ELSE s

Strip(s) == RStrip(LStrip(s))

\* str.isalnum(): non-empty and every character alphanumeric
IsAlnum(s) == s # <<>> /\ \A i \in 1..Len(s) : IsAlnumChar(s[i])

\* str.upper()
ToUpper(s) == [i \in 1..Len(s) |-> UpperChar(s[i])]

(* --------------------------- search service ---------------------------- *)

\* a value that is not a str (None, a number, ...): .upper() raises on it
NotAStr == <<"NotAStr">>

\* symbols the search service may return
Symbols == {<<>>, <<"z", "7">>}

\* one candidate of res['quotes']: with or without a 'symbol' key
Candidates ==
    {[hasSymbol |-> FALSE, symbol |-> NotAStr]}
    \cup {[hasSymbol |-> TRUE, symbol |-> s] : s \in Symbols \cup {NotAStr}}

RECURSIVE QuotesOfLen(_)
QuotesOfLen(n) ==
    IF n = 0 THEN {<<>>}
    ELSE {Append(qs, c) : qs \in QuotesOfLen(n - 1), c \in Candidates}

\* what yahooquery.search(q) may do: raise, return something that is no dict,
\* a dict without 'quotes', a dict whose 'quotes' is no list of candidates
\* (None, a number, a str: len() or [0]['symbol'] raises), or a dict with a
\* list of candidates
SearchResponses ==
    {[kind |-> k, quotes |-> <<>>] : k \in {"raise", "nondict", "noquotes", "notalist"}}
    \cup {[kind |-> "list", quotes |-> qs] :
            qs \in UNION {QuotesOfLen(k) : k \in 0..MaxQuotes}}

\* the response slot of a call that never reached the search service
NoResponse == [kind |-> "none", quotes |-> <<>>]

(* ------------------------------ resolver ------------------------------- *)

\* longest input taken as a literal ticker
TickerMaxLen == 5

\* the length limit off by one: a five-character input is not a literal ticker
IsLiteralTicker_short(q) == Len(q) < TickerMaxLen /\ IsAlnum(q)

\* line 20: the input already has the shape of a ticker
IsLiteralTicker(q) == Len(q) <= TickerMaxLen /\ IsAlnum(q)

\* the call reaches search(q)
TakesSearchPath(query0) ==
    LET q == Strip(query0) IN q # <<>> /\ ~IsLiteralTicker(q)

\* the last candidate taken instead of the first
FromSearch_last(res) ==
    IF res.kind # "list" THEN None
    ELSE IF Len(res.quotes) = 0 THEN None
    ELSE IF ~res.quotes[Len(res.quotes)].hasSymbol THEN None
    ELSE IF res.quotes[Len(res.quotes)].symbol = NotAStr THEN None
    ELSE ToUpper(res.quotes[Len(res.quotes)].symbol)

\* lines 23-30 on a response: the first candidate's symbol uppercased, None on
\* any exception and on a response without candidates
FromSearch(res) ==
    IF res.kind # "list" THEN None
    ELSE IF Len(res.quotes) = 0 THEN None
    ELSE IF ~res.quotes[1].hasSymbol THEN None
    ELSE IF res.quotes[1].symbol = NotAStr THEN None
    ELSE ToUpper(res.quotes[1].symbol)

\* the input not stripped before it is examined
name_to_ticker_nostrip(query0, res) ==
    IF query0 = <<>> THEN [ret |-> None, searched |-> FALSE]
    ELSE IF IsLiteralTicker(query0)
    THEN [ret |-> ToUpper(query0), searched |-> FALSE]
    ELSE [ret |-> FromSearch(res), searched |-> TRUE]

\* name_to_ticker(query) when the search service, if asked, answers res:
\* the value returned and whether search was called
name_to_ticker(query0, res) ==
    LET q == Strip(query0) IN
    IF q = <<>> THEN [ret |-> None, searched |-> FALSE]
    ELSE IF IsLiteralTicker(q) THEN [ret |-> ToUpper(q), searched |-> FALSE]
    ELSE [ret |-> FromSearch(res), searched |-> TRUE]

(* ---------------------------- price frames ----------------------------- *)

\* a column: its name and the upstream column its values come from
Col(n) == [name |-> n, src |-> n]

\* the column layouts an upstream frame may have (none, Close, only
\* Adj Close, neither, both)
ColumnSets ==
    {<<>>,
     <<Col("Open"), Col("Close")>>,
     <<Col("Open"), Col("Adj Close")>>,
     <<Col("Volume"), Col("Open")>>,
     <<Col("Adj Close"), Col("Close")>>}

\* a DataFrame: columns, number of rows, and whether its index has been
\* moved to month ends
Frames ==
    {[kind |-> "frame", cols |-> cs, rows |-> n, monthEnd |-> FALSE] :
        cs \in ColumnSets, n \in 0..MaxRows}

\* pd.DataFrame()
EmptyFrame == [kind |-> "frame", cols |-> <<>>, rows |-> 0, monthEnd |-> FALSE]

\* None where a frame is expected, a raised exception, a local not yet bound
NoneFrame == [kind |-> "none", cols |-> <<>>, rows |-> 0, monthEnd |-> FALSE]
Raised == [kind |-> "raise", cols |-> <<>>, rows |-> 0, monthEnd |-> FALSE]
NoFrame == [kind |-> "unset", cols |-> <<>>, rows |-> 0, monthEnd |-> FALSE]

\* what t.history(...) may do: raise, return None, return a frame
HistoryResults == {Raised, NoneFrame} \cup Frames

\* DataFrame.empty: some axis has length 0
IsEmpty(df) == df.rows = 0 \/ Len(df.cols) = 0

HasCol(df, n) == \E i \in 1..Len(df.cols) : df.cols[i].name = n

\* the fallback taken on None only, an empty frame accepted
NeedsFallback_none(df) == df = NoneFrame

\* line 49: the primary result calls for the fallback request
NeedsFallback(df) == df = NoneFrame \/ IsEmpty(df)

\* how a history request ended, for the request log
OutKind(h) ==
    CASE h = Raised -> "raise"
      [] h = NoneFrame -> "none"
      [] OTHER -> IF IsEmpty(h) THEN "empty" ELSE "data"

\* no exception on None or on a frame without columns: the frame goes on as is
Standardize_silent(df) ==
    IF df = NoneFrame \/ Len(df.cols) = 0 THEN [raised |-> FALSE, df |-> df]
    ELSE IF HasCol(df, "Close")
    THEN [raised |-> FALSE,
          df |-> [df EXCEPT !.cols = <<[name |-> "Price", src |-> "Close"]>>]]
    ELSE IF HasCol(df, "Adj Close")
    THEN [raised |-> FALSE,
          df |-> [df EXCEPT !.cols = <<[name |-> "Price", src |-> "Adj Close"]>>]]
    ELSE [raised |-> FALSE,
          df |-> [df EXCEPT !.cols =
                    Append(df.cols, [name |-> "Price", src |-> df.cols[1].src])]]

\* lines 54-60: one 'Price' column from Close, else Adj Close, else a copy of
\* the first column; raises on None (no .columns) and on a frame without
\* columns (iloc[:, 0] is out of bounds)
Standardize(df) ==
    IF df = NoneFrame THEN [raised |-> TRUE, df |-> df]
    ELSE IF HasCol(df, "Close")
    THEN [raised |-> FALSE,
          df |-> [df EXCEPT !.cols = <<[name |-> "Price", src |-> "Close"]>>]]
    ELSE IF HasCol(df, "Adj Close")
    THEN [raised |-> FALSE,
          df |-> [df EXCEPT !.cols = <<[name |-> "Price", src |-> "Adj Close"]>>]]
    ELSE IF Len(df.cols) = 0 THEN [raised |-> TRUE, df |-> df]
    ELSE [raised |-> FALSE,
          df |-> [df EXCEPT !.cols =
                    Append(df.cols, [name |-> "Price", src |-> df.cols[1].src])]]

(* ----------------------------- forward EPS ----------------------------- *)

\* an optional number: <<>> is Python's None, <<v>> the number v
NoEps == <<>>

\* forwardEps values upstream may carry (0 is a value, not an absence)
EpsValues == {<<0>>, <<3>>}

\* what t.info may do: raise, be no dict, be a dict (a missing key reads None)
InfoResults ==
    {[kind |-> k, forwardEps |-> NoEps] : k \in {"raise", "nondict"}}
    \cup {[kind |-> "dict", forwardEps |-> v] : v \in EpsValues \cup {NoEps}}

\* lines 69-75
FromInfo(info) == IF info.kind = "dict" THEN info.forwardEps ELSE NoEps

\* what yq.summary_detail may do: raise; be a dict or another object with
\* .get (a DataFrame), whose entry for the ticker is missing, is an error
\* string, or is a mapping; be an object without .get
SummaryResults ==
    {[kind |-> k, entry |-> "missing", forwardEps |-> NoEps] : k \in {"raise", "other"}}
    \cup {[kind |-> k, entry |-> e, forwardEps |-> NoEps] :
            k \in {"dict", "getter"}, e \in {"missing", "str"}}
    \cup {[kind |-> k, entry |-> "dict", forwardEps |-> v] :
            k \in {"dict", "getter"}, v \in EpsValues \cup {NoEps}}

\* lines 79-90
FromSummary(sd) ==
    IF sd.kind \in {"dict", "getter"} /\ sd.entry = "dict"
    THEN sd.forwardEps
    ELSE NoEps

\* the second source tried whatever the first gave
NeedsSummary_always(e) == TRUE

\* line 78: the second source is tried
NeedsSummary(e) == e = NoEps

(* ------------------------------ presenter ------------------------------ *)

\* line 116: the pipeline runs on this rerun
ShouldRun(clicked, q, done) == clicked \/ (q # <<>> /\ ~done)

\* only the empty string counted as false, None let through
Falsy_empty(v) == v = <<>>

\* Python truthiness of a str or None (lines 119, 123)
Falsy(v) == v = None \/ v = <<>>

\* a truthiness test, which takes 0 for an absent value
HasEps_truthy(e) == e # NoEps /\ e # <<0>>

\* line 146: the second series is drawn
HasEps(e) == e # NoEps

\* lines 139-163: the figure for a non-empty price frame
Figure(df, e) ==
    LET idx == [rows |-> df.rows, monthEnd |-> df.monthEnd]
        price == [label |-> "Price", index |-> idx,
                  values |-> CHOOSE c \in {df.cols[i] : i \in 1..Len(df.cols)} :
                                c.name = "Price"]
        epsSeries == [label |-> "12-month forward EPS", index |-> idx,
                      values |-> [i \in 1..df.rows |-> e[1]]]
    IN IF HasEps(e) THEN <<price, epsSeries>> ELSE <<price>>

NoChart == <<>>

\* the text values typed in the session
SessionQueries == {<<>>, <<" ">>, <<"a", "7">>, <<"a", "-", "7">>}

(* -------------------------------- state -------------------------------- *)

VARIABLES
    query,        \* st.text_input value of the current rerun
    searched,     \* st.session_state["searched"]
    clicked,      \* st.button("검색") of the current rerun
    event,        \* what caused the current rerun: "load", "enter", "click"
    runs,         \* browser events so far
    pc,           \* position of the script
    res,          \* name_to_ticker: the search response received
    ticker,       \* presenter: name_to_ticker's result
    trace,        \* the presenter's calls in the current rerun, in order
    requests,     \* upstream requests of the current rerun, in order
    df_price,     \* fetcher: df_price
    eps,          \* fetcher: forward_eps
    failed,       \* fetcher: an exception reached the outer except (line 93)
    price_df,     \* presenter: price_df
    forward_eps,  \* presenter: forward_eps
    shown,        \* messages on the page
    chart         \* series of the figure given to st.pyplot, if any

vars == <<query, searched, clicked, event, runs, pc, res, ticker, trace, requests,
          df_price, eps, failed, price_df, forward_eps, shown, chart>>

\* a str local not yet bound
Unset == <<"unset">>

\* a rerun starts with an empty page and fresh locals
FreshRun ==
    /\ res' = NoResponse
    /\ ticker' = Unset
    /\ trace' = <<>>
    /\ requests' = <<>>
    /\ df_price' = NoFrame
    /\ eps' = NoEps
    /\ failed' = FALSE
    /\ price_df' = NoFrame
    /\ forward_eps' = NoEps
    /\ shown' = {}
    /\ chart' = NoChart

\* the first rerun: the page is loaded, the field is empty, nothing clicked
Init ==
    /\ query = <<>>
    /\ searched = FALSE
    /\ clicked = FALSE
    /\ event = "load"
    /\ runs = 0
    /\ pc = "gate"
    /\ res = NoResponse
    /\ ticker = Unset
    /\ trace = <<>>
    /\ requests = <<>>
    /\ df_price = NoFrame
    /\ eps = NoEps
    /\ failed = FALSE
    /\ price_df = NoFrame
    /\ forward_eps = NoEps
    /\ shown = {}
    /\ chart = NoChart

(* --------------------------- browser events ---------------------------- *)

\* Enter in the text field with a changed value: a rerun, button not clicked
EnterSubmit ==
    /\ pc = "idle"
    /\ runs < MaxRuns
    /\ \E q \in SessionQueries \ {query} : query' = q
    /\ clicked' = FALSE
    /\ event' = "enter"
    /\ runs' = runs + 1
    /\ pc' = "gate"
    /\ FreshRun
    /\ UNCHANGED searched

\* a click on the button: a rerun with the field's value, which may have
\* been edited just before the click
ClickSearch ==
    /\ pc = "idle"
    /\ runs < MaxRuns
    /\ \E q \in SessionQueries : query' = q
    /\ clicked' = TRUE
    /\ event' = "click"
    /\ runs' = runs + 1
    /\ pc' = "gate"
    /\ FreshRun
    /\ UNCHANGED searched

(* ---------------------------- script steps ----------------------------- *)

\* lines 116-120
Gate ==
    /\ pc = "gate"
    /\ IF ShouldRun(clicked, query, searched)
       THEN /\ searched' = TRUE
            /\ IF Falsy(query)
               THEN shown' = shown \cup {"prompt"} /\ pc' = "idle"
               ELSE shown' = shown /\ pc' = "resolve"
       ELSE UNCHANGED <<searched, shown>> /\ pc' = "idle"
    /\ UNCHANGED <<trace, query, clicked, event, runs, res, ticker, requests, df_price,
                   eps, failed, price_df, forward_eps, chart>>

\* line 122 and lines 14-30
Resolve ==
    /\ pc = "resolve"
    /\ \E r \in (IF TakesSearchPath(query) THEN SearchResponses ELSE {NoResponse}) :
          LET out == name_to_ticker(query, r) IN
          /\ res' = r
          /\ ticker' = out.ret
          /\ requests' = IF out.searched
                         THEN Append(requests, [api |-> "search"])
                         ELSE requests
    /\ trace' = Append(trace, "name_to_ticker")
    /\ pc' = "resolved"
    /\ UNCHANGED <<query, searched, clicked, event, runs, df_price, eps, failed,
                   price_df, forward_eps, shown, chart>>

\* lines 123-126
ShowTicker ==
    /\ pc = "resolved"
    /\ IF Falsy(ticker)
       THEN shown' = shown \cup {"not_found"} /\ pc' = "idle"
       ELSE shown' = shown \cup {"success"} /\ pc' = "history"
    /\ UNCHANGED <<trace, query, searched, clicked, event, runs, res, ticker, requests,
                   df_price, eps, failed, price_df, forward_eps, chart>>

\* lines 45-49: the five-year request
HistoryPrimary ==
    /\ pc = "history"
    /\ trace' = Append(trace, "get_price_and_forward_eps")
    /\ \E h \in HistoryResults :
          /\ requests' = Append(requests,
                [api |-> "history", range |-> "5y", interval |-> "1mo",
                 out |-> OutKind(h)])
          /\ IF h = Raised
             THEN failed' = TRUE /\ pc' = "except" /\ UNCHANGED df_price
             ELSE /\ df_price' = h
                  /\ failed' = failed
                  /\ pc' = IF NeedsFallback(h) THEN "fallback" ELSE "standardize"
    /\ UNCHANGED <<query, searched, clicked, event, runs, res, ticker, eps,
                   price_df, forward_eps, shown, chart>>

\* line 51: the maximum-history request
HistoryFallback ==
    /\ pc = "fallback"
    /\ \E h \in HistoryResults :
          /\ requests' = Append(requests,
                [api |-> "history", range |-> "max", interval |-> "1mo",
                 out |-> OutKind(h)])
          /\ IF h = Raised
             THEN failed' = TRUE /\ pc' = "except" /\ UNCHANGED df_price
             ELSE df_price' = h /\ failed' = failed /\ pc' = "standardize"
    /\ UNCHANGED <<trace, query, searched, clicked, event, runs, res, ticker, eps,
                   price_df, forward_eps, shown, chart>>

\* lines 54-60
StandardizeStep ==
    /\ pc = "standardize"
    /\ LET out == Standardize(df_price) IN
          IF out.raised
          THEN failed' = TRUE /\ pc' = "except" /\ UNCHANGED df_price
          ELSE df_price' = out.df /\ failed' = failed /\ pc' = "align"
    /\ UNCHANGED <<trace, query, searched, clicked, event, runs, res, ticker, requests,
                   eps, price_df, forward_eps, shown, chart>>

\* lines 63-66: the index moved to month ends; a failure is passed over
AlignIndex ==
    /\ pc = "align"
    /\ \E ok \in BOOLEAN :
          df_price' = IF ok THEN [df_price EXCEPT !.monthEnd = TRUE] ELSE df_price
    /\ pc' = "info"
    /\ UNCHANGED <<trace, query, searched, clicked, event, runs, res, ticker, requests,
                   eps, failed, price_df, forward_eps, shown, chart>>

\* lines 69-78
InfoLookup ==
    /\ pc = "info"
    /\ \E info \in InfoResults :
          /\ eps' = FromInfo(info)
          /\ pc' = IF NeedsSummary(FromInfo(info)) THEN "summary" ELSE "return"
          /\ requests' = Append(requests, [api |-> "info", out |-> info])
    /\ UNCHANGED <<trace, query, searched, clicked, event, runs, res, ticker, df_price,
                   failed, price_df, forward_eps, shown, chart>>

\* lines 79-90
SummaryLookup ==
    /\ pc = "summary"
    /\ \E sd \in SummaryResults :
          /\ eps' = FromSummary(sd)
          /\ requests' = Append(requests, [api |-> "summary_detail", out |-> sd])
    /\ pc' = "return"
    /\ UNCHANGED <<trace, query, searched, clicked, event, runs, res, ticker, df_price,
                   failed, price_df, forward_eps, shown, chart>>

\* line 92 into line 128
FetchReturn ==
    /\ pc = "return"
    /\ price_df' = df_price
    /\ forward_eps' = eps
    /\ pc' = "render"
    /\ UNCHANGED <<trace, query, searched, clicked, event, runs, res, ticker, requests,
                   df_price, eps, failed, shown, chart>>

\* lines 93-95: the exception leaves the fetcher as a RuntimeError
FetchRaise ==
    /\ pc = "except"
    /\ pc' = "raised"
    /\ UNCHANGED <<trace, query, searched, clicked, event, runs, res, ticker, requests,
                   df_price, eps, failed, price_df, forward_eps, shown, chart>>

\* lines 129-133: the presenter's handler
CatchFetchError ==
    /\ pc = "raised"
    /\ shown' = shown \cup {"fetch_error", "error_text"}
    /\ price_df' = EmptyFrame
    /\ forward_eps' = NoEps
    /\ pc' = "render"
    /\ UNCHANGED <<trace, query, searched, clicked, event, runs, res, ticker, requests,
                   df_price, eps, failed, chart>>

\* lines 135-171
Render ==
    /\ pc = "render"
    /\ IF price_df = NoneFrame \/ IsEmpty(price_df)
       THEN shown' = shown \cup {"no_price"} /\ UNCHANGED <<chart, trace>>
       ELSE /\ chart' = Figure(price_df, forward_eps)
            /\ trace' = Append(trace, "pyplot")
            /\ shown' = shown \cup {"data_sample", "eps_value"}
                            \cup (IF HasEps(forward_eps) THEN {} ELSE {"no_eps"})
    /\ pc' = "idle"
    /\ UNCHANGED <<query, searched, clicked, event, runs, res, ticker, requests,
                   df_price, eps, failed, price_df, forward_eps>>

Next ==
    \/ EnterSubmit
    \/ ClickSearch
    \/ Gate
    \/ Resolve
    \/ ShowTicker
    \/ HistoryPrimary
    \/ HistoryFallback
    \/ StandardizeStep
    \/ AlignIndex
    \/ InfoLookup
    \/ SummaryLookup
    \/ FetchReturn
    \/ FetchRaise
    \/ CatchFetchError
    \/ Render

Spec == Init /\ [][Next]_vars

(* ------------------- the resolver on arbitrary input ------------------- *)

\* name_to_ticker about to be called on any string of up to MaxLen characters
InitResolver ==
    /\ query \in Strs(MaxLen)
    /\ searched = FALSE
    /\ clicked = FALSE
    /\ event = "call"
    /\ runs = 0
    /\ pc = "resolve"
    /\ res = NoResponse
    /\ ticker = Unset
    /\ trace = <<>>
    /\ requests = <<>>
    /\ df_price = NoFrame
    /\ eps = NoEps
    /\ failed = FALSE
    /\ price_df = NoFrame
    /\ forward_eps = NoEps
    /\ shown = {}
    /\ chart = NoChart

NextResolver == Resolve

SpecResolver == InitResolver /\ [][NextResolver]_vars

(* ------------------------------- claims -------------------------------- *)

\* positions in the request log and in the presenter's call trace
HistoryAt(r) ==
    {i \in 1..Len(requests) : requests[i].api = "history" /\ requests[i].range = r}

RequestsOf(a) == {i \in 1..Len(requests) : requests[i].api = a}

CallsOf(f) == {i \in 1..Len(trace) : trace[i] = f}

\* C1: an input of at most 5 characters, all alphanumeric (the code's
\* q.isalnum(), which no empty string satisfies: the empty input is C2's
\* case), is returned uppercased, and the search service is not called.
C1_LiteralTickerUppercased ==
    (/\ pc = "resolved"
     /\ query # <<>>
     /\ Len(query) <= 5
     /\ \A i \in 1..Len(query) : IsAlnumChar(query[i]))
    => /\ ticker = ToUpper(query)
       /\ res = NoResponse
       /\ requests = <<>>

\* a five-character input with a letter came back uppercased, unsearched
C1_Witness ==
    /\ pc = "resolved"
    /\ Len(query) = 5
    /\ \A i \in 1..5 : IsAlnumChar(query[i])
    /\ ticker = ToUpper(query)
    /\ ticker # query
    /\ requests = <<>>

\* C2: an empty or whitespace-only input gives None, and the search service
\* is not called.
C2_BlankInputNoTicker ==
    (pc = "resolved" /\ \A i \in 1..Len(query) : IsSpaceChar(query[i]))
    => /\ ticker = None
       /\ res = NoResponse
       /\ requests = <<>>

\* a whitespace-only input of two characters was resolved to None
C2_Witness ==
    /\ pc = "resolved"
    /\ Len(query) = 2
    /\ \A i \in 1..2 : IsSpaceChar(query[i])
    /\ ticker = None

\* the response has no first candidate with a str 'symbol': the call raised,
\* gave no dict, no 'quotes', no list, an empty list, or a first candidate
\* whose 'symbol' is missing or not a str
C3_NoUsableCandidate ==
    \/ res.kind \in {"raise", "nondict", "noquotes", "notalist"}
    \/ res.quotes = <<>>
    \/ ~res.quotes[1].hasSymbol
    \/ res.quotes[1].symbol = NotAStr

\* C3: a call that takes the search path always returns: None when the
\* response has no usable first candidate, otherwise the first candidate's
\* symbol uppercased, whatever the later candidates are.  It searches once.
C3_SearchPathResult ==
    /\ (pc = "resolved" /\ Strip(query) # <<>>
        /\ (Len(Strip(query)) > 5
            \/ \E i \in 1..Len(Strip(query)) : ~IsAlnumChar(Strip(query)[i])))
       => requests = <<[api |-> "search"]>>
    /\ (pc = "resolved" /\ requests # <<>>)
       => /\ requests = <<[api |-> "search"]>>
          /\ IF C3_NoUsableCandidate
             THEN ticker = None
             ELSE ticker = ToUpper(res.quotes[1].symbol)

\* two candidates came back with different symbols and the first one won
C3_Witness ==
    /\ pc = "resolved"
    /\ res.kind = "list"
    /\ Len(res.quotes) = 2
    /\ res.quotes[1] = [hasSymbol |-> TRUE, symbol |-> <<"z", "7">>]
    /\ res.quotes[2] = [hasSymbol |-> TRUE, symbol |-> <<>>]
    /\ ticker = <<"Z", "7">>

\* C4: the maximum-history request is made iff the five-year request
\* returned an empty frame or None; it comes after that request, at the same
\* interval; and while the primary result is empty and the fallback is still
\* to be made the fetcher has reported nothing (no return, no error).
C4_FallbackIffPrimaryEmpty ==
    LET P == HistoryAt("5y")
        M == HistoryAt("max")
        emptyP == {i \in P : requests[i].out \in {"empty", "none"}}
    IN /\ Cardinality(P) <= 1
       /\ Cardinality(M) <= 1
       /\ \A j \in M : \E i \in emptyP :
             i < j /\ requests[j].interval = requests[i].interval
       /\ (emptyP # {} /\ M = {})
          => /\ pc = "fallback"
             /\ ~failed
             /\ price_df = NoFrame
             /\ shown \cap {"fetch_error", "error_text", "no_price"} = {}
             /\ chart = NoChart

\* an empty primary result, then the fallback, whose data was charted
C4_Witness ==
    /\ pc = "idle"
    /\ \E i \in HistoryAt("5y") : requests[i].out = "empty"
    /\ \E j \in HistoryAt("max") : requests[j].out = "data"
    /\ chart # NoChart

\* the lookup gave a non-null forwardEps
C5_InfoYields(info) == info.kind = "dict" /\ info.forwardEps # NoEps

C5_SummaryYields(sd) ==
    sd.kind \in {"dict", "getter"} /\ sd.entry = "dict" /\ sd.forwardEps # NoEps

\* C5: once the price frame has its Price column (price retrieval
\* succeeded), the fetcher returns it unchanged and never raises, whatever
\* the two forward-EPS lookups do; the value returned is info's forwardEps
\* when that is non-null, and then summary_detail is not asked; otherwise it
\* is summary_detail's forwardEps when that is non-null, and otherwise None.
C5_ForwardEpsOrderedFallback ==
    (pc \in {"render", "idle"} /\ HasCol(df_price, "Price"))
    => LET I == RequestsOf("info")
           S == RequestsOf("summary_detail")
       IN /\ ~failed
          /\ "fetch_error" \notin shown
          /\ price_df = df_price
          /\ Cardinality(I) = 1
          /\ Cardinality(S) <= 1
          /\ \A i \in I :
                IF C5_InfoYields(requests[i].out)
                THEN forward_eps = requests[i].out.forwardEps /\ S = {}
                ELSE /\ S # {}
                     /\ \A j \in S :
                          /\ i < j
                          /\ IF C5_SummaryYields(requests[j].out)
                             THEN forward_eps = requests[j].out.forwardEps
                             ELSE forward_eps = NoEps

\* info raised, summary_detail gave 3, and 3 was returned and charted
C5_Witness ==
    /\ pc = "idle"
    /\ \E i \in RequestsOf("info") : requests[i].out.kind = "raise"
    /\ \E j \in RequestsOf("summary_detail") :
          requests[j].out = [kind |-> "dict", entry |-> "dict", forwardEps |-> <<3>>]
    /\ forward_eps = <<3>>
    /\ Len(chart) = 2

C7_StagesOrdered ==
    LET R == CallsOf("name_to_ticker")
        F == CallsOf("get_price_and_forward_eps")
        C == CallsOf("pyplot")
    IN /\ Cardinality(R) <= 1
       /\ Cardinality(F) <= 1
       /\ Cardinality(C) <= 1
       /\ \A j \in F : /\ \E i \in R : i < j
                       /\ ticker \notin {Unset, None, <<>>}
       /\ \A k \in C : \E j \in F : j < k
       /\ RequestsOf("history") # {} => F # {}
       /\ chart # NoChart => C # {}
       /\ (pc = "idle" /\ clicked /\ query = <<>>)
          => /\ shown = {"prompt"}
             /\ trace = <<>>
             /\ requests = <<>>
             /\ chart = NoChart
       /\ (pc = "idle" /\ R # {} /\ ticker = None)
          => /\ shown = {"not_found"}
             /\ F = {}
             /\ RequestsOf("history") = {}
             /\ chart = NoChart

\* the search gave no candidates: "not found", and only the resolver ran
C7_Witness ==
    /\ pc = "idle"
    /\ res = [kind |-> "list", quotes |-> <<>>]
    /\ ticker = None
    /\ shown = {"not_found"}
    /\ trace = <<"name_to_ticker">>

\* C8: at the end of every rerun caused by a submit (Enter or the button)
\* with a non-empty query, that query has been resolved and one outcome (not
\* found, error, warning or chart) is on the page.
C8_EverySubmitRunsPipeline ==
    (pc = "idle" /\ event \in {"enter", "click"} /\ query # <<>>)
    => /\ CallsOf("name_to_ticker") # {}
       /\ \/ shown \cap {"not_found", "fetch_error", "no_price"} # {}
          \/ chart # NoChart

\* C9: when the five-year and the maximum-history requests both return an
\* empty frame, whatever its columns, the fetcher returns an empty frame and
\* does not raise, the "cannot load price data" warning is shown without the
\* fetch-error message, and there is no chart; a rerun that fetched has a
\* chart iff the price frame it got is non-empty.
C9_EmptyPriceWarning ==
    /\ (/\ pc = "idle"
        /\ \E i \in HistoryAt("5y") : requests[i].out = "empty"
        /\ \E j \in HistoryAt("max") : requests[j].out = "empty")
       => /\ ~failed
          /\ price_df = df_price
          /\ "no_price" \in shown
          /\ "fetch_error" \notin shown
          /\ chart = NoChart
    /\ (pc = "idle" /\ CallsOf("get_price_and_forward_eps") # {})
       => (chart # NoChart <=> (price_df.kind = "frame" /\ ~IsEmpty(price_df)))

\* C10: a non-empty price frame is always charted: without forward EPS, the
\* price series alone and the "forward EPS not provided" note; with any
\* non-null forward EPS, 0 included, the price series and a constant series
\* of that value over the same index, and no note.
C10_ChartForNonEmptyPrice ==
    (pc = "idle" /\ price_df.kind = "frame" /\ ~IsEmpty(price_df))
    => /\ chart # NoChart
       /\ chart[1].label = "Price"
       /\ chart[1].values.name = "Price"
       /\ chart[1].index = [rows |-> price_df.rows, monthEnd |-> price_df.monthEnd]
       /\ IF forward_eps = NoEps
          THEN Len(chart) = 1 /\ "no_eps" \in shown
          ELSE /\ Len(chart) = 2
               /\ chart[2].index = chart[1].index
               /\ DOMAIN chart[2].values = 1..price_df.rows
               /\ \A i \in 1..price_df.rows : chart[2].values[i] = forward_eps[1]
               /\ "no_eps" \notin shown

\* a forward EPS of 0 was drawn as the second series, and no note was shown
C10_Witness ==
    /\ pc = "idle"
    /\ forward_eps = <<0>>
    /\ Len(chart) = 2
    /\ chart[2].values = [i \in 1..price_df.rows |-> 0]
    /\ price_df.rows = 2
    /\ "no_eps" \notin shown

====
